---- MODULE Spec2Model ----
(***************************************************************************)
(* One run of main() of dashds.py: the table is fetched (run_query), a     *)
(* municipality is resolved in the sidebar (IBGE code first, then the      *)
(* UF / name select boxes), and the three comparison blocks (fleet,        *)
(* mortality rate, IBEU) are computed over the municipality, its           *)
(* population bracket, its state and the whole table.                      *)
(***************************************************************************)
EXTENDS Integers, Sequences, FiniteSets, TLC

(***************************************************************************)
(* Cell values.  A cell of a numeric column is a number or NaN/None; a     *)
(* cell of the columns the code coerces may also hold text.  Text is a     *)
(* sequence of one-character strings so that strip() can be computed.      *)
(***************************************************************************)
NaN == [k |-> "null", n |-> 0, d |-> 1, s |-> <<>>]
Num(n) == [k |-> "num", n |-> n, d |-> 1, s |-> <<>>]
Frac(n, d) == [k |-> "num", n |-> n, d |-> d, s |-> <<>>]
Inf == [k |-> "inf", n |-> 0, d |-> 1, s |-> <<>>]
Text(s) == [k |-> "text", n |-> 0, d |-> 1, s |-> s]

\* None in a text column (uf, nome_mun, faixa_pop_2022)
None == "None"

DigitChars == <<"0", "1", "2", "3", "4", "5", "6", "7", "8", "9">>

IsDigit(c) == \E i \in 1..Len(DigitChars) : DigitChars[i] = c

DigitVal(c) == (CHOOSE i \in 1..Len(DigitChars) : DigitChars[i] = c) - 1

\* str(n) of a non-negative int
RECURSIVE str_int(_)
str_int(n) == IF n < Len(DigitChars) THEN <<DigitChars[n + 1]>>
              ELSE Append(str_int(n \div Len(DigitChars)), DigitChars[(n % Len(DigitChars)) + 1])

\* int(s) of a digit string
RECURSIVE int_str(_)
int_str(s) == IF s = <<>> THEN 0
              ELSE int_str(SubSeq(s, 1, Len(s) - 1)) * Len(DigitChars) + DigitVal(s[Len(s)])

RECURSIVE lstrip(_)
lstrip(s) == IF s # <<>> /\ Head(s) = " " THEN lstrip(Tail(s)) ELSE s

RECURSIVE rstrip(_)
rstrip(s) == IF s # <<>> /\ s[Len(s)] = " " THEN rstrip(SubSeq(s, 1, Len(s) - 1)) ELSE s

\* str.strip()
strip(s) == rstrip(lstrip(s))

\* .astype(str) of one cell
astype_str(v) == CASE v.k = "text" -> v.s
                   [] v.k = "num" -> str_int(v.n)
                   [] OTHER -> <<"N", "o", "n", "e">>

\* pd.to_numeric(., errors='coerce') of one cell
to_numeric(v) == CASE v.k = "text" ->
                        IF v.s # <<>> /\ \A i \in 1..Len(v.s) : IsDigit(v.s[i])
                        THEN Num(int_str(v.s))
                        ELSE NaN
                   [] OTHER -> v

(***************************************************************************)
(* The table t_analises.dados_gerais.  The columns are those the query     *)
(* selects and the comparison blocks read.                                  *)
(***************************************************************************)
Row(cod, u, nome, faixa, auto, moto, outr, tx, ib) ==
    [cod_mun |-> cod, uf |-> u, nome_mun |-> nome, faixa_pop_2022 |-> faixa,
     auto_2023 |-> auto, moto_2023 |-> moto, outr_veic_2023 |-> outr,
     tx_mortalidade_100mil_hab |-> tx, ibeu |-> ib]

\* Longest table of the family that varies the codes, states and names
MaxRows == 2
\* Longest table of the families that vary the brackets and the metric cells
MaxPeers == 3

\* Rows of a table whose cod_mun column is text: they differ in code (padded,
\* zero-prefixed), state and name
CodeRows == { Row(Text(c), u, n, "small", Num(10), Num(0), NaN, Num(10), Num(1)) :
                c \in { <<" ", "1">>, <<"0", "1">> },
                u \in {"SP", "RJ", None}, n \in {"A", "B"} }

\* Rows that differ in state, bracket and fleet count
FleetRows == { Row(NaN, u, "A", f, a, Num(0), NaN, Num(10), Num(1)) :
                 u \in {"SP", "RJ"}, f \in {"small", None}, a \in {NaN, Num(10)} }

\* Rows of a table whose rate and index columns are text: they differ in
\* bracket and in the cells of auto_2023, tx_mortalidade_100mil_hab and ibeu
MetricRows == { Row(NaN, "SP", "A", f, m[1], Num(0), Num(0), m[2], m[3]) :
                  f \in {"small", None},
                  m \in { <<Num(10), Text(<<"1", "0">>), NaN>>,
                           <<NaN, NaN, Text(<<"1">>)>>,
                           <<Num(20), Text(<<"2", "0">>), Text(<<"1">>)>>,
                           <<Num(0), Text(<<"n", "a">>), Text(<<"n", "a">>)>> } }

\* An integer cod_mun column: the code of a row is its number
Numbered(t) == [i \in DOMAIN t |-> [t[i] EXCEPT !.cod_mun = Num(i)]]

Tables == {<<>>}
            \cup UNION { [1..n -> CodeRows] : n \in 1..MaxRows }
            \cup UNION { { Numbered(t) : t \in [1..n -> FleetRows] } : n \in 1..MaxPeers }
            \cup UNION { { Numbered(t) : t \in [1..n -> MetricRows] } : n \in 1..MaxPeers }

\* What the user may type in "Digite o Código IBGE:"
Codes == { <<>>, <<" ">>, <<"1", " ">>, <<"0", "1">>, <<"2">> }

VARIABLES conn, dados_gerais, df, pc, cod_mun, uf, municipio, df_fil_mun,
          niveis, dados_grafico, dados_mortalidade, dados_ibeu, msgs, opcao2, escopos

vars == <<conn, dados_gerais, df, pc, cod_mun, uf, municipio, df_fil_mun,
          niveis, dados_grafico, dados_mortalidade, dados_ibeu, msgs, opcao2, escopos>>

Init == /\ conn \in BOOLEAN
        /\ dados_gerais \in Tables
        /\ df = <<>>
        /\ pc = "start"
        /\ cod_mun = <<>>
        /\ uf = "Selecione um estado"
        /\ municipio = "Selecione um município"
        /\ df_fil_mun = <<>>
        /\ niveis = <<>>
        /\ dados_grafico = <<>>
        /\ dados_mortalidade = <<>>
        /\ dados_ibeu = <<>>
        /\ msgs = {}
        /\ opcao2 = FALSE
        /\ escopos = <<>>

\* run_query: the rows of the table, or an empty frame when the cursor or the
\* query raises (conn is None after a failed connection)
run_query == IF conn THEN dados_gerais ELSE <<>>

\* LoadData without the test of df.empty
LoadData_unchecked ==
    /\ pc = "start"
    /\ df' = run_query
    /\ pc' = "sidebar"
    /\ UNCHANGED <<conn, dados_gerais, cod_mun, uf, municipio, df_fil_mun, niveis,
                   dados_grafico, dados_mortalidade, dados_ibeu, msgs, opcao2, escopos>>

\* main, "Carregar dados": fetch, and return at once on an empty frame
LoadData ==
    /\ pc = "start"
    /\ df' = run_query
    /\ IF df' = <<>>
       THEN /\ pc' = "nodata"
            /\ msgs' = msgs \cup {"Não foi possível carregar os dados"}
       ELSE /\ pc' = "sidebar"
            /\ msgs' = msgs
    /\ UNCHANGED <<conn, dados_gerais, cod_mun, uf, municipio, df_fil_mun,
                   niveis, dados_grafico, dados_mortalidade, dados_ibeu, opcao2, escopos>>

\* column == value of a frame: a None cell, or a None value, compares False
eq(a, b) == a # None /\ b # None /\ a = b

\* filter_cod comparing the codes as numbers
filter_cod_numeric(t, cod) ==
    SelectSeq(t, LAMBDA r : int_str(strip(astype_str(r.cod_mun))) = int_str(strip(cod)))

\* df[df[cod_mun].astype(str).str.strip() == cod.strip()]
filter_cod(t, cod) == SelectSeq(t, LAMBDA r : strip(astype_str(r.cod_mun)) = strip(cod))

\* SearchByCode taking the name of the matching row but not its state
SearchByCode_keeps_uf(cod) ==
    /\ pc = "sidebar"
    /\ cod_mun' = cod
    /\ IF cod # <<>>
       THEN /\ df_fil_mun' = filter_cod(df, cod)
            /\ IF df_fil_mun' # <<>>
               THEN /\ municipio' = df_fil_mun'[1].nome_mun
                    /\ msgs' = msgs
               ELSE /\ msgs' = msgs \cup {"Nenhum município encontrado com este código!"}
                    /\ UNCHANGED municipio
       ELSE UNCHANGED <<df_fil_mun, municipio, msgs>>
    /\ pc' = "filtros"
    /\ UNCHANGED <<conn, dados_gerais, df, uf, niveis, dados_grafico,
                   dados_mortalidade, dados_ibeu, opcao2, escopos>>

\* main, "Opção 1: Busca por código IBGE"
SearchByCode(cod) ==
    /\ pc = "sidebar"
    /\ cod_mun' = cod
    /\ IF cod # <<>>
       THEN /\ df_fil_mun' = filter_cod(df, cod)
            /\ IF df_fil_mun' # <<>>
               THEN /\ municipio' = df_fil_mun'[1].nome_mun
                    /\ uf' = df_fil_mun'[1].uf
                    /\ msgs' = msgs
               ELSE /\ msgs' = msgs \cup {"Nenhum município encontrado com este código!"}
                    /\ UNCHANGED <<municipio, uf>>
       ELSE UNCHANGED <<df_fil_mun, municipio, uf, msgs>>
    /\ pc' = "filtros"
    /\ UNCHANGED <<conn, dados_gerais, df, niveis, dados_grafico,
                   dados_mortalidade, dados_ibeu, opcao2, escopos>>

\* df[df[uf] == u]
filter_uf(t, u) == SelectSeq(t, LAMBDA r : eq(r.uf, u))

\* df_filtered[df_filtered[nome_mun] == m]
filter_nome(t, m) == SelectSeq(t, LAMBDA r : eq(r.nome_mun, m))

\* df[df[faixa_pop_2022] == f]
filter_faixa(t, f) == SelectSeq(t, LAMBDA r : eq(r.faixa_pop_2022, f))

\* the fallback test of "Opção 2": no code typed, or the code matched nothing
UseFilters == cod_mun = <<>> \/ df_fil_mun = <<>>

\* main, "Opção 2: Filtros tradicionais": the two select boxes.  sorted() of
\* the states raises TypeError when None stands beside a text; a select box
\* over no options returns None.
SelectFilters ==
    /\ pc = "filtros"
    /\ opcao2' = UseFilters
    /\ IF UseFilters
       THEN LET ufs == { df[i].uf : i \in DOMAIN df } IN
            IF None \in ufs /\ ufs # {None}
            THEN /\ pc' = "crashed"
                 /\ UNCHANGED <<uf, municipio, df_fil_mun>>
            ELSE \E u \in ufs :
                   LET df_filtered == filter_uf(df, u)
                       nomes == { df_filtered[i].nome_mun : i \in DOMAIN df_filtered }
                   IN /\ uf' = u
                      /\ \E m \in (IF nomes = {} THEN {None} ELSE nomes) :
                            /\ municipio' = m
                            /\ df_fil_mun' = filter_nome(df_filtered, m)
                      /\ pc' = "col3"
       ELSE /\ pc' = "col3"
            /\ UNCHANGED <<uf, municipio, df_fil_mun>>
    /\ UNCHANGED <<conn, dados_gerais, df, cod_mun, niveis, dados_grafico,
                   dados_mortalidade, dados_ibeu, msgs, escopos>>

\* Series.sum() / DataFrame[col].sum(): NaN cells are skipped, an empty
\* selection sums to 0
RECURSIVE sum(_)
sum(vals) == IF vals = <<>> THEN 0
             ELSE (IF Head(vals).k = "num" THEN Head(vals).n ELSE 0) + sum(Tail(vals))

\* the number of numeric cells
RECURSIVE count(_)
count(vals) == IF vals = <<>> THEN 0
               ELSE (IF Head(vals).k = "num" THEN 1 ELSE 0) + count(Tail(vals))

\* mean dividing by the number of cells, NaN cells included
mean_over_all(vals) == IF vals = <<>> THEN NaN ELSE Frac(sum(vals), Len(vals))

\* Series.mean(): NaN cells are skipped; NaN when no cell is numeric
mean(vals) == IF count(vals) = 0 THEN NaN ELSE Frac(sum(vals), count(vals))

column(t, c) == [i \in DOMAIN t |-> t[i][c]]

FleetCols == <<"auto_2023", "moto_2023", "outr_veic_2023">>

\* t[[auto_2023, moto_2023, outr_veic_2023]].sum()
fleet_sums(t) == [j \in DOMAIN FleetCols |-> Num(sum(column(t, FleetCols[j])))]

\* div giving 0 for a total of 0
div_zero_total(qtd, total) == IF qtd.k # "num" \/ total.k # "num" THEN NaN
                              ELSE IF total.n = 0 THEN Num(0)
                              ELSE Frac(qtd.n, total.n)

\* qtd / total on numpy scalars: NaN propagates, 0/0 is NaN, x/0 is inf
div(qtd, total) == IF qtd.k # "num" \/ total.k # "num" THEN NaN
                   ELSE IF total.n = 0 THEN (IF qtd.n = 0 THEN NaN ELSE Inf)
                   ELSE Frac(qtd.n, total.n)

\* one entry of niveis turned into its rows of dados_grafico
grafico(valores) ==
    LET total == Num(sum(valores))
    IN [total |-> total,
        Quantidade |-> valores,
        Participacao |-> [j \in DOMAIN valores |-> div(valores[j], total)]]

Niveis == <<"Município", "Faixa Populacional", "Estado", "Brasil">>

\* main, "Coluna 3 - COMPARAÇÃO DE FROTAS"; escopos holds the three selections
\* the sums are taken over (bracket, state, whole table)
FleetComparison ==
    /\ pc = "col3"
    /\ IF df # <<>> /\ df_fil_mun # <<>>
       THEN /\ escopos' = << filter_faixa(df, df_fil_mun[1].faixa_pop_2022),
                             filter_uf(df, uf),
                             df >>
            /\ niveis' = << [j \in DOMAIN FleetCols |-> df_fil_mun[1][FleetCols[j]]],
                            fleet_sums(escopos'[1]),
                            fleet_sums(escopos'[2]),
                            fleet_sums(escopos'[3]) >>
            /\ dados_grafico' = [l \in DOMAIN Niveis |-> grafico(niveis'[l])]
       ELSE UNCHANGED <<niveis, dados_grafico, escopos>>
    /\ pc' = "col_esq"
    /\ UNCHANGED <<conn, dados_gerais, df, cod_mun, uf, municipio, df_fil_mun,
                   dados_mortalidade, dados_ibeu, msgs, opcao2>>

\* df[c] = pd.to_numeric(df[c], errors='coerce'): the column of df is replaced
coerce(t, c) == [i \in DOMAIN t |-> [t[i] EXCEPT ![c] = to_numeric(@)]]

\* the four entries Município, Faixa, Estado, Brasil of a comparison of means
comparativo(t, c) ==
    << df_fil_mun[1][c],
       mean(column(filter_faixa(t, df_fil_mun[1].faixa_pop_2022), c)),
       mean(column(filter_uf(t, uf), c)),
       mean(column(t, c)) >>

\* main, "TAXA DE MORTALIDADE (2022)"; iloc[0] of an empty selection raises
\* inside the try, after the column was replaced
Mortality ==
    /\ pc = "col_esq"
    /\ df' = coerce(df, "tx_mortalidade_100mil_hab")
    /\ IF df_fil_mun # <<>>
       THEN /\ dados_mortalidade' = comparativo(df', "tx_mortalidade_100mil_hab")
            /\ msgs' = msgs
       ELSE /\ msgs' = msgs \cup {"Erro ao processar mortalidade"}
            /\ UNCHANGED dados_mortalidade
    /\ pc' = "col_dir"
    /\ UNCHANGED <<conn, dados_gerais, cod_mun, uf, municipio, df_fil_mun,
                   niveis, dados_grafico, dados_ibeu, opcao2, escopos>>

\* main, "ÍNDICE DE BEM-ESTAR URBANO"
Ibeu ==
    /\ pc = "col_dir"
    /\ df' = coerce(df, "ibeu")
    /\ IF df_fil_mun # <<>>
       THEN /\ dados_ibeu' = comparativo(df', "ibeu")
            /\ msgs' = msgs
       ELSE /\ msgs' = msgs \cup {"Erro ao processar IBEU"}
            /\ UNCHANGED dados_ibeu
    /\ pc' = "done"
    /\ UNCHANGED <<conn, dados_gerais, cod_mun, uf, municipio, df_fil_mun,
                   niveis, dados_grafico, dados_mortalidade, opcao2, escopos>>

Next == \/ LoadData
        \/ \E cod \in Codes : SearchByCode(cod)
        \/ SelectFilters
        \/ FleetComparison
        \/ Mortality
        \/ Ibeu

Spec == Init /\ [][Next]_vars

(***************************************************************************)
(* Properties                                                              *)
(***************************************************************************)
AfterSidebar == pc \in {"col3", "col_esq", "col_dir", "done"}
AfterFleet == pc \in {"col_esq", "col_dir", "done"}
AfterMortality == pc \in {"col_dir", "done"}

\* The fetched rows whose code, as trimmed text, is the trimmed typed code
TextMatches == SelectSeq(dados_gerais, LAMBDA r : strip(astype_str(r.cod_mun)) = strip(cod_mun))

\* The rows whose code, read as a number, is the typed code read as a number
NumericMatches ==
    { i \in DOMAIN dados_gerais :
        int_str(strip(astype_str(dados_gerais[i].cod_mun))) = int_str(strip(cod_mun)) }

NotFound == cod_mun # <<>> /\ Len(TextMatches) = 0
Ambiguous == cod_mun # <<>> /\ Len(TextMatches) > 1

\* C1: when two or more rows carry the typed code, the code lookup resolves no
\* row: it leaves no selection and no municipality, it does not take the first.
C1_DuplicateCodeResolvesNothing ==
    (pc = "filtros" /\ Ambiguous) =>
        /\ df_fil_mun = <<>>
        /\ municipio = "Selecione um município"

\* C2: the select boxes are consulted exactly when no code was typed or the
\* code lookup ended NotFound or Ambiguous; the selection they make has the
\* chosen state and name in every row; a code that matches is answered by the
\* matching row without the select boxes.
C2_TwoTierFallback ==
    AfterSidebar =>
        /\ opcao2 <=> (cod_mun = <<>> \/ NotFound \/ Ambiguous)
        /\ opcao2 => \A i \in DOMAIN df_fil_mun :
                        df_fil_mun[i].uf = uf /\ df_fil_mun[i].nome_mun = municipio
        /\ ~opcao2 => /\ df_fil_mun = TextMatches
                      /\ df_fil_mun # <<>>
                      /\ uf = df_fil_mun[1].uf
                      /\ municipio = df_fil_mun[1].nome_mun

\* C2, on the tables where no code is carried by two rows: the statement of
\* C2 holds there.
C2_TwoTierFallbackUniqueCodes ==
    (\A i, j \in DOMAIN dados_gerais :
        strip(astype_str(dados_gerais[i].cod_mun)) = strip(astype_str(dados_gerais[j].cod_mun))
            => i = j)
    => C2_TwoTierFallback

\* C3: after the code lookup the selection is exactly the rows whose trimmed
\* code text equals the trimmed typed text; when there is none the run goes
\* on with a warning, no selection and no municipality.
C3_ExactTrimmedTextMatch ==
    (pc = "filtros" /\ cod_mun # <<>>) =>
        /\ df_fil_mun = TextMatches
        /\ Len(TextMatches) = 0 =>
              /\ "Nenhum município encontrado com este código!" \in msgs
              /\ df_fil_mun = <<>>
              /\ municipio = "Selecione um município"
              /\ uf = "Selecione um estado"

\* C3 witness: a typed code that equals a row's code as a number but not as
\* text ("1 " against "01"), and the lookup found nothing
C3_Witness ==
    /\ pc = "filtros"
    /\ cod_mun = <<"1", " ">>
    /\ df_fil_mun = <<>>
    /\ NumericMatches # {}

\* The run resolved a municipality: the selection is not empty
Resolved == AfterSidebar /\ df_fil_mun # <<>>

\* The rows of the fetched table in the bracket, in the state, of row r
BracketIdx(r) == { i \in DOMAIN dados_gerais :
                     r.faixa_pop_2022 # None
                     /\ dados_gerais[i].faixa_pop_2022 = r.faixa_pop_2022 }
RegionIdx(r) == { i \in DOMAIN dados_gerais : r.uf # None /\ dados_gerais[i].uf = r.uf }

Range(s) == { s[i] : i \in DOMAIN s }

\* C4: the resolved row is in the state selection and in the bracket
\* selection the sums are taken over (when its state, its bracket, is not
\* None); uf is the resolved row's own state; the bracket selection is every
\* row of the table with that bracket, whatever its state.
C4_ScopeContainment ==
    Resolved =>
        LET r == df_fil_mun[1] IN
        /\ uf = r.uf
        /\ AfterFleet =>
              /\ r.uf # None => r \in Range(escopos[2])
              /\ r.faixa_pop_2022 # None => r \in Range(escopos[1])
              /\ Len(escopos[1]) = Cardinality(BracketIdx(r))
              /\ \A i \in BracketIdx(r) : dados_gerais[i] \in Range(escopos[1])
              /\ Len(escopos[2]) = Cardinality(RegionIdx(r))
              /\ \A i \in RegionIdx(r) : dados_gerais[i] \in Range(escopos[2])

\* C4 witness: a row resolved by its code whose bracket is shared by a row of
\* another state, after the sums were taken
C4_Witness ==
    /\ Resolved /\ AfterFleet /\ ~opcao2
    /\ df_fil_mun[1].faixa_pop_2022 # None
    /\ \E i \in BracketIdx(df_fil_mun[1]) : dados_gerais[i].uf # df_fil_mun[1].uf

IsNum(v) == v.k = "num"

RECURSIVE Total(_)
Total(f) == IF DOMAIN f = {} THEN 0
            ELSE LET i == CHOOSE i \in DOMAIN f : TRUE
                 IN f[i] + Total([j \in DOMAIN f \ {i} |-> f[j]])

\* C5 as stated: at each of the four levels, a total other than 0 gives three
\* numeric shares that add up to 1, and a total of 0 gives three NaN shares.
C5_SharesSumToOne ==
    (AfterFleet /\ Resolved) =>
        \A l \in DOMAIN dados_grafico :
            LET g == dados_grafico[l] IN
            IF g.total.n # 0
            THEN /\ \A j \in DOMAIN g.Participacao :
                       IsNum(g.Participacao[j]) /\ g.Participacao[j].d = g.total.n
                 /\ Total([j \in DOMAIN g.Participacao |-> g.Participacao[j].n]) = g.total.n
            ELSE \A j \in DOMAIN g.Participacao : g.Participacao[j] = NaN

\* C5 amended: at each of the four levels, with a total other than 0 the share
\* of a category is NaN exactly when its count is NaN and the other shares add
\* up to 1; with a total of 0 the three shares are NaN; no share is infinite.
C5_NumericSharesSumToOne ==
    (AfterFleet /\ Resolved) =>
        \A l \in DOMAIN dados_grafico :
            LET g == dados_grafico[l]
                numeric == { j \in DOMAIN g.Participacao : IsNum(g.Participacao[j]) }
            IN
            /\ \A j \in DOMAIN g.Participacao : g.Participacao[j].k \in {"num", "null"}
            /\ IF g.total.n # 0
               THEN /\ numeric = { j \in DOMAIN g.Quantidade : IsNum(g.Quantidade[j]) }
                    /\ \A j \in numeric : g.Participacao[j].d = g.total.n
                    /\ Total([j \in numeric |-> g.Participacao[j].n]) = g.total.n
               ELSE numeric = {}

\* C5 witness: the municipality has a count that is NaN beside a total other
\* than 0, and its bracket has a total of 0
C5_Witness ==
    /\ AfterFleet /\ Resolved
    /\ dados_grafico[1].total.n # 0
    /\ \E j \in DOMAIN FleetCols : dados_grafico[1].Quantidade[j] = NaN
    /\ dados_grafico[2].total.n = 0

\* C6: when the bracket selection, or the state selection, is empty, each
\* fleet sum and each mean of that level is NaN.
C6_EmptyScopeIsNull ==
    (AfterFleet /\ Resolved) =>
        \A l \in {1, 2} :
            escopos[l] = <<>> =>
                /\ \A j \in DOMAIN FleetCols : niveis[l + 1][j] = NaN
                /\ AfterMortality => dados_mortalidade[l + 1] = NaN
                /\ pc = "done" => dados_ibeu[l + 1] = NaN

\* The rows of the fetched table a level l of the comparisons covers
\* (2: bracket, 3: state, 4: whole table)
LevelIdx(l, r) == CASE l = 2 -> BracketIdx(r)
                    [] l = 3 -> RegionIdx(r)
                    [] OTHER -> DOMAIN dados_gerais

\* The numeric entries of a column over a set of rows of the fetched table:
\* the cell as it is for a fleet column, parsed for a rate or index column
Entry(i, c) == to_numeric(dados_gerais[i][c])
NumericRows(S, c) == { i \in S : IsNum(Entry(i, c)) }
SumOfNumeric(S, c) == Total([i \in NumericRows(S, c) |-> Entry(i, c).n])

\* what a mean comparison must show at level l for column c
MeanIs(v, S, c) == IF NumericRows(S, c) = {} THEN v = NaN
                   ELSE /\ IsNum(v)
                        /\ v.n * Cardinality(NumericRows(S, c)) = SumOfNumeric(S, c) * v.d

C8_TableNeverMutated == pc = "done" => df = dados_gerais

\* C9: when run_query returns an empty frame the run ends in the "no data"
\* error and nothing of the sidebar or of the comparisons is executed.
C9_FailFastNoData ==
    (~conn \/ dados_gerais = <<>>) =>
        /\ pc \in {"start", "nodata"}
        /\ pc = "nodata" => "Não foi possível carregar os dados" \in msgs
        /\ cod_mun = <<>> /\ df_fil_mun = <<>> /\ ~opcao2
        /\ uf = "Selecione um estado" /\ municipio = "Selecione um município"
        /\ escopos = <<>> /\ niveis = <<>> /\ dados_grafico = <<>>
        /\ dados_mortalidade = <<>> /\ dados_ibeu = <<>>
        /\ df = <<>>

\* C9 witness: the connection is absent, the table is not empty, and the run
\* has ended in the "no data" error
C9_Witness == ~conn /\ dados_gerais # <<>> /\ pc = "nodata"

\* C10: the value shown for the municipality in a mean comparison is the
\* parsed value of its cell: NaN when the cell is None or is not a number.
C10_RecordValueIsCoerced ==
    Resolved =>
        /\ AfterMortality =>
              dados_mortalidade[1] = to_numeric(df_fil_mun[1].tx_mortalidade_100mil_hab)
        /\ pc = "done" => dados_ibeu[1] = to_numeric(df_fil_mun[1].ibeu)

====
